---- MODULE Spec2Model ----
(***************************************************************************)
(* Cloud model wrappers (perceptron/models/classification/cloud.py) and    *)
(* the random utilities (perceptron/utils/rngs.py).                        *)
(*                                                                         *)
(* One Python process is modelled.  Its state is the environment variable  *)
(* GOOGLE_APPLICATION_CREDENTIALS, the model object the program holds, the *)
(* last predictions() call (inputs, the steps it took, outcome), an        *)
(* earlier call kept for comparison, and the three random generators of    *)
(* the process: rngs.rng, rngs.nprng and the hidden generator of the       *)
(* `random` module.  `twin` is the hidden generator of a second run of the *)
(* same program, which takes the same steps from other entropy.            *)
(***************************************************************************)
EXTENDS Integers, Sequences, FiniteSets, TLC

VARIABLES env, model, cur, prev, rng, nprng, sysrng, twin, seed, drawn

vars == <<env, model, cur, prev, rng, nprng, sysrng, twin, seed, drawn>>

(***************************************************************************)
(* Bounds of the model.                                                    *)
(***************************************************************************)
MaxImages == 1
MaxSeed == 2
MaxDraws == 2
RngMod == 2

(***************************************************************************)
(* Python values.  Every value that a claim inspects carries its type.     *)
(***************************************************************************)
PyNone == [t |-> "none"]
PyDict(f) == [t |-> "dict", v |-> f]
PyList(s) == [t |-> "list", v |-> s]
PyStr(s) == [t |-> "str", v |-> s]
PyBytes(s) == [t |-> "bytes", v |-> s]

(***************************************************************************)
(* base64.b64encode / base64.b64decode.  Bytes are numbers 0..255, the     *)
(* characters of the base64 alphabet are their indices 0..63, and B64Pad   *)
(* is the character '='.                                                   *)
(***************************************************************************)
B64Pad == 64

RECURSIVE b64encode(_)
b64encode(b) ==
    IF Len(b) = 0 THEN <<>>
    ELSE IF Len(b) = 1 THEN
        <<b[1] \div 4, (b[1] % 4) * 16, B64Pad, B64Pad>>
    ELSE IF Len(b) = 2 THEN
        <<b[1] \div 4, (b[1] % 4) * 16 + (b[2] \div 16), (b[2] % 16) * 4, B64Pad>>
    ELSE
        <<b[1] \div 4, (b[1] % 4) * 16 + (b[2] \div 16),
          (b[2] % 16) * 4 + (b[3] \div 64), b[3] % 64>>
        \o b64encode(SubSeq(b, 4, Len(b)))

\* The bytes of one group of four characters.
B64Quad(q) ==
    IF q[3] = B64Pad THEN <<q[1] * 4 + (q[2] \div 16)>>
    ELSE IF q[4] = B64Pad THEN
        <<q[1] * 4 + (q[2] \div 16), (q[2] % 16) * 16 + (q[3] \div 4)>>
    ELSE <<q[1] * 4 + (q[2] \div 16), (q[2] % 16) * 16 + (q[3] \div 4),
           (q[3] % 4) * 64 + q[4]>>

RECURSIVE B64Groups(_)
B64Groups(s) ==
    IF Len(s) = 0 THEN <<>>
    ELSE B64Quad(SubSeq(s, 1, 4)) \o B64Groups(SubSeq(s, 5, Len(s)))

\* binascii.Error ("Incorrect padding") when the text is no whole number of
\* groups, or '=' stands anywhere but at the end of the last group.
B64WellFormed(s) ==
    /\ Len(s) % 4 = 0
    /\ \A i \in 1..Len(s) :
          s[i] = B64Pad =>
             /\ i >= Len(s) - 1
             /\ (i = Len(s) - 1 => s[Len(s)] = B64Pad)

b64decode(s) ==
    IF B64WellFormed(s) THEN [ok |-> TRUE, v |-> B64Groups(s)]
    ELSE [ok |-> FALSE, v |-> <<>>]

(***************************************************************************)
(* Protocol buffers.  A message is the function of its set fields (what    *)
(* ListFields() yields): a field left at its default is not in the domain. *)
(* Field values are tagged: a scalar, a repeated field, a sub-message.     *)
(***************************************************************************)
PbVal(x) == [t |-> "val", v |-> x]
PbRep(s) == [t |-> "rep", v |-> s]
PbMsg(f) == [t |-> "msg", v |-> f]
PbEmpty == PbMsg(<<>>)

\* message.field for a repeated field: the empty list when it is not set.
PbRepeated(msg, field) ==
    IF field \in DOMAIN msg.v THEN msg.v[field].v ELSE <<>>

\* protobuf_to_dict: a dict of the set fields, sub-messages and repeated
\* fields converted in turn.
RECURSIVE protobuf_to_dict(_)
protobuf_to_dict(pb) ==
    CASE pb.t = "msg" ->
            PyDict([k \in DOMAIN pb.v |-> protobuf_to_dict(pb.v[k])])
      [] pb.t = "rep" ->
            PyList([i \in 1..Len(pb.v) |-> protobuf_to_dict(pb.v[i])])
      [] OTHER -> pb.v

(***************************************************************************)
(* The wire format of protocol buffers, for the two messages of            *)
(* general_classify_client_pb2.  A field is a tag byte (number * 8 + wire  *)
(* type), then a one-byte value (wire type 0) or a one-byte length and the *)
(* payload (wire type 2).                                                  *)
(***************************************************************************)
PbLenField(num, payload) == <<num * 8 + 2, Len(payload)>> \o payload
PbVarintField(num, n) == <<num * 8, n>>

RECURSIVE PbConcat(_)
PbConcat(ss) == IF Len(ss) = 0 THEN <<>> ELSE Head(ss) \o PbConcat(Tail(ss))

\* str.encode for the strings the program sends.
Utf8(s) ==
    CASE s = "antiporn" -> <<97, 110, 116, 105, 112, 111, 114, 110>>
      [] s = "porn" -> <<112, 111, 114, 110>>
      [] s = "normal" -> <<110, 111, 114, 109, 97, 108>>
      [] OTHER -> <<63>>

\* GeneralClassifyRequest.SerializeToString: image = 1 (bytes),
\* classify_type = 2 (repeated message: type_name = 1, topnum = 2).  A
\* topnum of 0 is the default and is not written.
SerializeRequest(req) ==
    PbLenField(1, req.image)
    \o PbConcat([i \in 1..Len(req.classify_type) |->
          PbLenField(2,
             PbLenField(1, Utf8(req.classify_type[i].type_name))
             \o (IF req.classify_type[i].topnum = 0 THEN <<>>
                 ELSE PbVarintField(2, req.classify_type[i].topnum)))])

\* GeneralClassifyResponse.SerializeToString, as the server does it:
\* result = 1 (repeated message: class_name = 1, probability = 2).
SerializeResponse(results) ==
    PbConcat([i \in 1..Len(results) |->
          PbLenField(1,
             PbLenField(1, Utf8(results[i].class_name))
             \o (IF results[i].probability = 0 THEN <<>>
                 ELSE PbVarintField(2, results[i].probability)))])

\* The fields of a serialized message, in order; not ok on a truncated
\* field or an unknown wire type (DecodeError).
RECURSIVE PbFields(_)
PbFields(b) ==
    IF Len(b) = 0 THEN [ok |-> TRUE, v |-> <<>>]
    ELSE IF Len(b) < 2 THEN [ok |-> FALSE, v |-> <<>>]
    ELSE IF b[1] % 8 = 0 THEN
        LET rest == PbFields(SubSeq(b, 3, Len(b)))
        IN  [ok |-> rest.ok,
             v |-> <<[num |-> b[1] \div 8, wt |-> 0, n |-> b[2],
                      bytes |-> <<>>]>> \o rest.v]
    ELSE IF b[1] % 8 = 2 /\ Len(b) >= 2 + b[2] THEN
        LET rest == PbFields(SubSeq(b, 3 + b[2], Len(b)))
        IN  [ok |-> rest.ok,
             v |-> <<[num |-> b[1] \div 8, wt |-> 2, n |-> 0,
                      bytes |-> SubSeq(b, 3, 2 + b[2])]>> \o rest.v]
    ELSE [ok |-> FALSE, v |-> <<>>]

PbIsField(f, num, wt) == f.num = num /\ f.wt = wt

\* One element of GeneralClassifyResponse.result from its fields.
ParseResult(fields) ==
    LET names == SelectSeq(fields, LAMBDA f : PbIsField(f, 1, 2))
        probs == SelectSeq(fields, LAMBDA f : PbIsField(f, 2, 0))
    IN  PbMsg((IF Len(names) = 0 THEN <<>>
               ELSE "class_name" :> PbVal(names[Len(names)].bytes))
              @@ (IF Len(probs) = 0 THEN <<>>
                  ELSE "probability" :> PbVal(probs[Len(probs)].n)))

\* GeneralClassifyResponse.ParseFromString.
ParseResponse(b) ==
    LET top == PbFields(b)
        subs == SelectSeq(top.v, LAMBDA f : PbIsField(f, 1, 2))
        parsed == [i \in 1..Len(subs) |-> PbFields(subs[i].bytes)]
    IN  IF ~top.ok \/ \E i \in 1..Len(subs) : ~parsed[i].ok
        THEN [ok |-> FALSE, v |-> PbEmpty]
        ELSE [ok |-> TRUE,
              v |-> PbMsg(IF Len(subs) = 0 THEN <<>>
                          ELSE "result" :> PbRep([i \in 1..Len(subs) |->
                                              ParseResult(parsed[i].v)]))]

\* GeneralClassifyRequest.ParseFromString, as the server does it.
ParseRequest(b) ==
    LET top == PbFields(b)
        imgs == SelectSeq(top.v, LAMBDA f : PbIsField(f, 1, 2))
        types == SelectSeq(top.v, LAMBDA f : PbIsField(f, 2, 2))
        sub(i) == PbFields(types[i].bytes).v
        nameOf(i) == SelectSeq(sub(i), LAMBDA f : PbIsField(f, 1, 2))
        topOf(i) == SelectSeq(sub(i), LAMBDA f : PbIsField(f, 2, 0))
    IN  [ok |-> top.ok /\ Len(imgs) > 0,
         image |-> IF Len(imgs) = 0 THEN <<>> ELSE imgs[Len(imgs)].bytes,
         classify_type |-> [i \in 1..Len(types) |->
             [type_name |-> IF Len(nameOf(i)) = 0 THEN <<>>
                            ELSE nameOf(i)[1].bytes,
              topnum |-> IF Len(topOf(i)) = 0 THEN 0 ELSE topOf(i)[1].n]]]

(***************************************************************************)
(* Images and perceptron.utils.image.ndarray_to_bytes: the encoded file is *)
(* a signature byte followed by the pixels.                                *)
(***************************************************************************)
ImageOf(n) == [i \in 1..n |-> (85 * n + 37 * i) % 256]
Images == {ImageOf(n) : n \in 1..MaxImages}

ndarray_to_bytes(image) == <<137>> \o image

(***************************************************************************)
(* The random generators.  A generator is a state in 0..RngMod-1; a draw   *)
(* advances the state and returns a function of the new state.             *)
(***************************************************************************)
RngStates == 0..(RngMod - 1)
Seeds == 1..MaxSeed
RngStep(s) == (s + 1) % RngMod

\* random.Random.seed(seed) and numpy.random.RandomState.seed(seed): the
\* state is a function of the seed alone.
RandomSeed(s) == s % RngMod
NumpySeed(s) == (s + 1) % RngMod

\* The state after k draws, and the k-th value drawn, from state s.
RECURSIVE RngAfter(_, _)
RngAfter(s, k) == IF k = 0 THEN s ELSE RngAfter(RngStep(s), k - 1)

\* random.randint(a, b) on a generator whose draw returned out.
LogidLow == 1000000
LogidHigh == 100000000
randint(a, b, out) == a + (out % (b - a + 1))

(***************************************************************************)
(* Model objects.  `cred` records whether GOOGLE_APPLICATION_CREDENTIALS   *)
(* was set when a Google model was constructed and `url0` the url given to *)
(* the constructor.  A construction that raised leaves no object: ok is    *)
(* FALSE.                                                                  *)
(***************************************************************************)
GoogleClasses ==
    {"GoogleSafeSearchModel", "GoogleObjectDetectionModel", "GoogleOCRModel"}
Urls == {"http://server/classify"}
Credentials == {<<"app", "key", "secret">>}

Object(cls, ok, err, task, handle, url, apiType, cred) ==
    [cls |-> cls, ok |-> ok, err |-> err, _task |-> task, handle |-> handle,
     url |-> url, url0 |-> url, _apiType |-> apiType, cred |-> cred]

NoModel == Object("none", FALSE, "", "", "", "", <<>>, FALSE)
Failed(cls, err, e) == Object(cls, FALSE, err, "", "", "", <<>>, e)

AipAntiPornModel_init(credential) ==
    Object("AipAntiPornModel", TRUE, "", "cls", "AipImageCensor", "", <<>>,
           FALSE)

\* GoogleCloudModel.__init__ without the assertion.
GoogleCloudModel_init_unchecked(e) == ""

\* GoogleCloudModel.__init__: the assertion on the environment variable.
GoogleCloudModel_init(e) == IF e THEN "" ELSE "AssertionError"

GoogleSafeSearchModel_init(e) ==
    IF GoogleCloudModel_init(e) # ""
    THEN Failed("GoogleSafeSearchModel", GoogleCloudModel_init(e), e)
    ELSE Object("GoogleSafeSearchModel", TRUE, "", "cls",
                "ImageAnnotatorClient", "", <<>>, e)

GoogleObjectDetectionModel_init(e) ==
    IF GoogleCloudModel_init(e) # ""
    THEN Failed("GoogleObjectDetectionModel", GoogleCloudModel_init(e), e)
    ELSE Object("GoogleObjectDetectionModel", TRUE, "", "det",
                "ImageAnnotatorClient", "", <<>>, e)

\* GoogleOCRModel.__init__ sets no _task.
GoogleOCRModel_init(e) ==
    IF GoogleCloudModel_init(e) # ""
    THEN Failed("GoogleOCRModel", GoogleCloudModel_init(e), e)
    ELSE Object("GoogleOCRModel", TRUE, "", "", "ImageAnnotatorClient", "",
                <<>>, e)

OfflineAntiPornModel_init(url) ==
    Object("OfflineAntiPornModel", TRUE, "", "cls", "", url, <<"antiporn">>,
           FALSE)

model_task(self) == self._task

(***************************************************************************)
(* The remote services.  A service is what it does with one request: it    *)
(* raises, or it answers with a body.                                      *)
(***************************************************************************)
Raises == [raises |-> TRUE, body |-> PyNone]
Answers(body) == [raises |-> FALSE, body |-> body]

\* AipImageCensor.antiPorn answers with the dict of the service's JSON.
AipClass(name, p) == PyDict([class_name |-> name, probability |-> p])
AipServices ==
    { Raises,
      Answers(PyDict([log_id |-> 7,
                      result |-> PyList(<<AipClass("porn", 9),
                                          AipClass("normal", 1)>>)])),
      Answers(PyDict([log_id |-> 8, result |-> PyList(<<>>)])),
      Answers(PyDict([log_id |-> 9, error_code |-> 18,
                      error_msg |-> "qps limit"])) }

\* ImageAnnotatorClient: one AnnotateImageResponse per method.  A likelihood
\* of UNKNOWN (0) is the field's default and is not set.
SafeSearch(f) == PbMsg("safe_search_annotation" :> PbMsg(f))
LocalizedObject(mid, name, score) ==
    PbMsg([mid |-> PbVal(mid), name |-> PbVal(name), score |-> PbVal(score)])
TextAnnotation(text) == PbMsg([description |-> PbVal(text)])
GoogleError == PbMsg("error" :> PbMsg([code |-> PbVal(3),
                                       message |-> PbVal("bad image")]))
GoogleServices ==
    { Raises,
      Answers([safe_search_detection |->
                   SafeSearch([adult |-> PbVal(1), spoof |-> PbVal(1),
                               medical |-> PbVal(2), violence |-> PbVal(1),
                               racy |-> PbVal(3)]),
               object_localization |->
                   PbMsg("localized_object_annotations" :>
                         PbRep(<<LocalizedObject("m1", "cat", 90),
                                 LocalizedObject("m2", "dog", 60)>>)),
               text_detection |->
                   PbMsg("text_annotations" :>
                         PbRep(<<TextAnnotation("stop")>>))]),
      Answers([safe_search_detection |-> SafeSearch([racy |-> PbVal(2)]),
               object_localization |-> PbEmpty,
               text_detection |-> PbEmpty]),
      Answers([safe_search_detection |-> GoogleError,
               object_localization |-> GoogleError,
               text_detection |-> GoogleError]) }

\* The offline server: urlopen or read raises, or the body that was read.
\* JSON text is the object it denotes; other text denotes none.
JsonText(obj) == [json |-> TRUE, v |-> obj]
NotJson == [json |-> FALSE, v |-> <<>>]
OfflineResults ==
    <<[class_name |-> "porn", probability |-> 97],
      [class_name |-> "normal", probability |-> 3]>>
OfflineServices ==
    { Raises,
      Answers(NotJson),
      Answers(JsonText([err_no |-> 1, err_msg |-> "busy"])),
      Answers(JsonText([err_no |-> 0, err_msg |-> "",
                        result |-> PyStr(b64encode(
                                      SerializeResponse(OfflineResults)))])),
      Answers(JsonText([err_no |-> 0, result |-> PyStr(<<18, 52, 22>>)])),
      Answers(JsonText([err_no |-> 0,
                        result |-> PyStr(b64encode(<<10, 9, 1>>))])) }

(***************************************************************************)
(* predictions().  The outcome of a call: the object after the call, the   *)
(* steps the call took, in order, the remote method it called and what it  *)
(* sent, and the value it returned or the exception it raised.             *)
(***************************************************************************)
Returned(self, events, method, sent, ret) ==
    [self |-> self, events |-> events, method |-> method, sent |-> sent,
     status |-> "returned", ret |-> ret, err |-> ""]
Raised(self, events, method, sent, err) ==
    [self |-> self, events |-> events, method |-> method, sent |-> sent,
     status |-> "raised", ret |-> PyNone, err |-> err]

\* AipAntiPornModel.predictions calling the service again when it raised.
AipAntiPornModel_predictions_retry(self, image, svc) ==
    LET image_bytes == ndarray_to_bytes(image)
        sent == PyBytes(image_bytes)
        predictions == svc.body
    IN  IF svc.raises
        THEN Raised(self, <<"serialize", "remote", "remote">>, "antiPorn",
                    sent, "Exception")
        ELSE IF "result" \in DOMAIN predictions.v
        THEN Returned(self, <<"serialize", "remote", "reshape">>, "antiPorn",
                      sent, predictions.v["result"])
        ELSE Returned(self, <<"serialize", "remote", "reshape">>, "antiPorn",
                      sent, predictions)

\* AipAntiPornModel.predictions without the test for 'result'.
AipAntiPornModel_predictions_whole(self, image, svc) ==
    LET image_bytes == ndarray_to_bytes(image)
        sent == PyBytes(image_bytes)
        predictions == svc.body
    IN  IF svc.raises
        THEN Raised(self, <<"serialize", "remote">>, "antiPorn", sent,
                    "Exception")
        ELSE Returned(self, <<"serialize", "remote", "reshape">>, "antiPorn",
                      sent, predictions)

AipAntiPornModel_predictions(self, image, svc) ==
    LET image_bytes == ndarray_to_bytes(image)
        sent == PyBytes(image_bytes)
        predictions == svc.body
    IN  IF svc.raises
        THEN Raised(self, <<"serialize", "remote">>, "antiPorn", sent, "Exception")
        ELSE IF "result" \in DOMAIN predictions.v
        THEN Returned(self, <<"serialize", "remote", "reshape">>, "antiPorn", sent,
                      predictions.v["result"])
        ELSE Returned(self, <<"serialize", "remote", "reshape">>, "antiPorn", sent,
                      predictions)

GoogleSafeSearchModel_predictions(self, image, svc) ==
    LET image_bytes == ndarray_to_bytes(image)
        sent == PyBytes(image_bytes)
        response == svc.body["safe_search_detection"]
        asdict == protobuf_to_dict(response)
    IN  IF svc.raises
        THEN Raised(self, <<"serialize", "remote">>, "safe_search_detection", sent,
                    "Exception")
        ELSE IF "safe_search_annotation" \notin DOMAIN asdict.v
        THEN Raised(self, <<"serialize", "remote", "reshape">>,
                    "safe_search_detection", sent, "KeyError")
        ELSE Returned(self, <<"serialize", "remote", "reshape">>,
                      "safe_search_detection", sent,
                      asdict.v["safe_search_annotation"])

GoogleObjectDetectionModel_predictions(self, image, svc) ==
    LET image_bytes == ndarray_to_bytes(image)
        sent == PyBytes(image_bytes)
        response == PbRepeated(svc.body["object_localization"],
                               "localized_object_annotations")
        predictions == [i \in 1..Len(response) |->
                           protobuf_to_dict(response[i])]
    IN  IF svc.raises
        THEN Raised(self, <<"serialize", "remote">>, "object_localization", sent,
                    "Exception")
        ELSE Returned(self, <<"serialize", "remote", "reshape">>,
                      "object_localization", sent, PyList(predictions))

\* GoogleOCRModel.predictions calling text_detection.
GoogleOCRModel_predictions_text(self, image, svc) ==
    LET image_bytes == ndarray_to_bytes(image)
        sent == PyBytes(image_bytes)
        response == PbRepeated(svc.body["text_detection"], "text_annotations")
        predictions == [i \in 1..Len(response) |->
                           protobuf_to_dict(response[i])]
    IN  IF svc.raises
        THEN Raised(self, <<"serialize", "remote">>, "text_detection", sent,
                    "Exception")
        ELSE Returned(self, <<"serialize", "remote", "reshape">>,
                      "text_detection", sent, PyList(predictions))

GoogleOCRModel_predictions(self, image, svc) ==
    LET image_bytes == ndarray_to_bytes(image)
        sent == PyBytes(image_bytes)
        response == PbRepeated(svc.body["object_localization"],
                               "localized_object_annotations")
        predictions == [i \in 1..Len(response) |->
                           protobuf_to_dict(response[i])]
    IN  IF svc.raises
        THEN Raised(self, <<"serialize", "remote">>, "object_localization", sent,
                    "Exception")
        ELSE Returned(self, <<"serialize", "remote", "reshape">>,
                      "object_localization", sent, PyList(predictions))

\* Lines 413-433: the request envelope.  topnum is assigned after the loop,
\* to the classify_type added last.
OfflineRequest(self, image, logid) ==
    LET image_data == ndarray_to_bytes(image)
        n == Len(self._apiType)
        proto_data ==
            [image |-> image_data,
             classify_type |-> [i \in 1..n |->
                 [type_name |-> self._apiType[i],
                  topnum |-> IF i = n THEN 5 ELSE 0]]]
        data == SerializeRequest(proto_data)
    IN  [appid |-> "123456", logid |-> logid, format |-> "json",
         from |-> "test-python", cmdid |-> "123", clientip |-> "0.0.0.0",
         data |-> PyStr(b64encode(data))]

\* The try statement with `response` given a default before it.
OfflineFetch_default(svc) ==
    IF svc.raises
    THEN [bound |-> TRUE, value |-> JsonText([result |-> PyStr(<<>>)]),
          printed |-> TRUE]
    ELSE [bound |-> TRUE, value |-> svc.body, printed |-> FALSE]

\* Lines 438-442: the local variable `response` after the try statement.
\* When urlopen or read raises, the exception is printed and `response` was
\* never assigned.
OfflineFetch(svc) ==
    IF svc.raises
    THEN [bound |-> FALSE, value |-> NotJson, printed |-> TRUE]
    ELSE [bound |-> TRUE, value |-> svc.body, printed |-> FALSE]

\* The response decoded, the decoded results returned alone.
OfflineDecode_result_only(self, events, sent, response) ==
    LET result == response.v
        raw == b64decode(result["result"].v)
        proto_result == ParseResponse(raw.v)
        result_json == protobuf_to_dict(proto_result.v)
    IN  IF ~response.json
        THEN Raised(self, events, "urlopen", sent, "ValueError")
        ELSE IF "result" \notin DOMAIN result
        THEN Raised(self, events, "urlopen", sent, "KeyError")
        ELSE IF ~raw.ok
        THEN Raised(self, events, "urlopen", sent, "binascii.Error")
        ELSE IF ~proto_result.ok
        THEN Raised(self, events, "urlopen", sent, "DecodeError")
        ELSE Returned(self, events, "urlopen", sent, result_json)

\* Lines 443-449: the response decoded.
OfflineDecode(self, events, sent, response) ==
    LET result == response.v
        raw == b64decode(result["result"].v)
        proto_result == ParseResponse(raw.v)
        result_json == protobuf_to_dict(proto_result.v)
    IN  IF ~response.json
        THEN Raised(self, events, "urlopen", sent, "ValueError")
        ELSE IF "result" \notin DOMAIN result
        THEN Raised(self, events, "urlopen", sent, "KeyError")
        ELSE IF ~raw.ok
        THEN Raised(self, events, "urlopen", sent, "binascii.Error")
        ELSE IF ~proto_result.ok
        THEN Raised(self, events, "urlopen", sent, "DecodeError")
        ELSE Returned(self, events, "urlopen", sent,
                      PyDict([result EXCEPT !["result"] = result_json]))

\* OfflineAntiPornModel.predictions keeping the address the server answered
\* from in self.url.
OfflineAntiPornModel_predictions_redirected(self, image, svc, logid) ==
    LET req_array == OfflineRequest(self, image, logid)
        sent == [url |-> self.url, content_type |-> "application/json",
                 body |-> JsonText(req_array)]
        fetched == OfflineFetch(svc)
        events == <<"serialize", "remote">>
                  \o (IF fetched.printed THEN <<"print">> ELSE <<>>)
        after == [self EXCEPT !.url = "http://mirror/classify"]
    IN  IF ~fetched.bound
        THEN Raised(self, events, "urlopen", sent, "UnboundLocalError")
        ELSE OfflineDecode(after, events \o <<"reshape">>, sent,
                           fetched.value)

OfflineAntiPornModel_predictions(self, image, svc, logid) ==
    LET req_array == OfflineRequest(self, image, logid)
        sent == [url |-> self.url, content_type |-> "application/json",
                 body |-> JsonText(req_array)]
        fetched == OfflineFetch(svc)
        events == <<"serialize", "remote">>
                  \o (IF fetched.printed THEN <<"print">> ELSE <<>>)
    IN  IF ~fetched.bound
        THEN Raised(self, events, "urlopen", sent, "UnboundLocalError")
        ELSE OfflineDecode(self, events \o <<"reshape">>, sent,
                           fetched.value)

(***************************************************************************)
(* The state machine.                                                      *)
(***************************************************************************)
\* A call as the state keeps it.  For an OfflineAntiPornModel call, logid
\* is the logid of the request, logid2 the logid the second run drew at the
\* same step, and seeded whether set_seeds had been called before.
Call(cls, image, svc, out, logid, logid2, seeded) ==
    [cls |-> cls, image |-> image, svc |-> svc, events |-> out.events,
     method |-> out.method, sent |-> out.sent, status |-> out.status,
     ret |-> out.ret, err |-> out.err, logid |-> logid, logid2 |-> logid2,
     seeded |-> seeded]

NoCall ==
    [cls |-> "none", image |-> <<>>, svc |-> Raises, events |-> <<>>,
     method |-> "", sent |-> PyNone, status |-> "none", ret |-> PyNone,
     err |-> "", logid |-> 0, logid2 |-> 0, seeded |-> FALSE]

\* What is kept of an earlier call.
Brief(c) ==
    [cls |-> c.cls, image |-> c.image, svc |-> c.svc, method |-> c.method,
     status |-> c.status, ret |-> c.ret, err |-> c.err]

NoDraws == [rng |-> <<>>, nprng |-> <<>>]

\* The generators start from operating-system entropy.  Neither they nor
\* OfflineAntiPornModel read the environment variable.
InitRng ==
    /\ env = FALSE
    /\ model = NoModel
    /\ cur = NoCall
    /\ prev = Brief(NoCall)
    /\ rng \in RngStates
    /\ nprng \in RngStates
    /\ sysrng \in RngStates
    /\ twin \in RngStates
    /\ seed = 0
    /\ drawn = NoDraws

\* The wrappers read neither rng nor nprng: one state of them stands for all.
Init ==
    /\ env \in BOOLEAN
    /\ model = NoModel
    /\ cur = NoCall
    /\ prev = Brief(NoCall)
    /\ rng = 0
    /\ nprng = 0
    /\ sysrng \in RngStates
    /\ twin \in RngStates
    /\ seed = 0
    /\ drawn = NoDraws

\* The environment variable is set or unset outside the wrappers.
SetEnv ==
    /\ env' = ~env
    /\ UNCHANGED <<model, cur, prev, rng, nprng, sysrng, twin, seed, drawn>>

ConstructAip ==
    \E c \in Credentials :
        /\ model' = AipAntiPornModel_init(c)
        /\ UNCHANGED <<env, cur, prev, rng, nprng, sysrng, twin, seed, drawn>>

ConstructSafeSearch ==
    /\ model' = GoogleSafeSearchModel_init(env)
    /\ UNCHANGED <<env, cur, prev, rng, nprng, sysrng, twin, seed, drawn>>

ConstructObjectDetection ==
    /\ model' = GoogleObjectDetectionModel_init(env)
    /\ UNCHANGED <<env, cur, prev, rng, nprng, sysrng, twin, seed, drawn>>

ConstructOCR ==
    /\ model' = GoogleOCRModel_init(env)
    /\ UNCHANGED <<env, cur, prev, rng, nprng, sysrng, twin, seed, drawn>>

ConstructOffline ==
    \E u \in Urls :
        /\ model' = OfflineAntiPornModel_init(u)
        /\ UNCHANGED <<env, cur, prev, rng, nprng, sysrng, twin, seed, drawn>>

\* One predictions() call on the object the program holds.
Finish(image, svc, out) ==
    /\ model' = out.self
    /\ cur' = Call(model.cls, image, svc, out, 0, 0, FALSE)
    /\ UNCHANGED <<env, prev, rng, nprng, sysrng, twin, seed, drawn>>

PredictAip ==
    /\ model.ok /\ model.cls = "AipAntiPornModel"
    /\ \E image \in Images, svc \in AipServices :
          Finish(image, svc, AipAntiPornModel_predictions(model, image, svc))

PredictSafeSearch ==
    /\ model.ok /\ model.cls = "GoogleSafeSearchModel"
    /\ \E image \in Images, svc \in GoogleServices :
          Finish(image, svc,
                 GoogleSafeSearchModel_predictions(model, image, svc))

PredictObjectDetection ==
    /\ model.ok /\ model.cls = "GoogleObjectDetectionModel"
    /\ \E image \in Images, svc \in GoogleServices :
          Finish(image, svc,
                 GoogleObjectDetectionModel_predictions(model, image, svc))

PredictOCR ==
    /\ model.ok /\ model.cls = "GoogleOCRModel"
    /\ \E image \in Images, svc \in GoogleServices :
          Finish(image, svc, GoogleOCRModel_predictions(model, image, svc))

\* Line 423 draws the logid from the generator of the `random` module; the
\* second run draws from its own.
PredictOffline ==
    /\ model.ok /\ model.cls = "OfflineAntiPornModel"
    /\ \E image \in Images, svc \in OfflineServices :
          LET logid == randint(LogidLow, LogidHigh, RngStep(sysrng))
              logid2 == randint(LogidLow, LogidHigh, RngStep(twin))
              out == OfflineAntiPornModel_predictions(model, image, svc, logid)
          IN  /\ model' = out.self
              /\ sysrng' = RngStep(sysrng)
              /\ twin' = RngStep(twin)
              /\ cur' = Call(model.cls, image, svc, out, logid, logid2,
                             seed # 0)
              /\ UNCHANGED <<env, prev, rng, nprng, seed, drawn>>

\* The last call is kept for comparison with a later one.
Remember ==
    /\ cur.cls # "none"
    /\ prev' = Brief(cur)
    /\ UNCHANGED <<env, model, cur, rng, nprng, sysrng, twin, seed, drawn>>

\* set_seeds seeding rng alone.
set_seeds_rng_only(sd) ==
    /\ rng' = RandomSeed(sd)
    /\ seed' = sd
    /\ drawn' = NoDraws
    /\ UNCHANGED <<env, model, cur, prev, nprng, sysrng, twin>>

\* set_seeds seeding the generator of the `random` module as well.
set_seeds_process_wide(sd) ==
    /\ rng' = RandomSeed(sd)
    /\ nprng' = NumpySeed(sd)
    /\ sysrng' = RandomSeed(sd)
    /\ twin' = RandomSeed(sd)
    /\ seed' = sd
    /\ drawn' = NoDraws
    /\ UNCHANGED <<env, model, cur, prev>>

\* rngs.set_seeds(seed); both runs call it with the same seed.
set_seeds(sd) ==
    /\ rng' = RandomSeed(sd)
    /\ nprng' = NumpySeed(sd)
    /\ seed' = sd
    /\ drawn' = NoDraws
    /\ UNCHANGED <<env, model, cur, prev, sysrng, twin>>

SetSeeds == \E sd \in Seeds : set_seeds(sd)

\* A draw from rngs.rng or rngs.nprng by the code that imports them.  The
\* values drawn since set_seeds are kept, the first MaxDraws of them.
Keep(s, x) == IF seed = 0 \/ Len(s) >= MaxDraws THEN s ELSE Append(s, x)

DrawRng ==
    /\ rng' = RngStep(rng)
    /\ drawn' = [drawn EXCEPT !.rng = Keep(@, RngStep(rng))]
    /\ UNCHANGED <<env, model, cur, prev, nprng, sysrng, twin, seed>>

DrawNprng ==
    /\ nprng' = RngStep(nprng)
    /\ drawn' = [drawn EXCEPT !.nprng = Keep(@, RngStep(nprng))]
    /\ UNCHANGED <<env, model, cur, prev, rng, sysrng, twin, seed>>

Next ==
    \/ SetEnv
    \/ ConstructAip
    \/ ConstructSafeSearch
    \/ ConstructObjectDetection
    \/ ConstructOCR
    \/ ConstructOffline
    \/ PredictAip
    \/ PredictSafeSearch
    \/ PredictObjectDetection
    \/ PredictOCR
    \/ PredictOffline

Spec == Init /\ [][Next]_vars

\* Two calls compared: the credential stays set.
InitPair == Init /\ env = TRUE

NextPair ==
    \/ ConstructAip
    \/ ConstructSafeSearch
    \/ ConstructObjectDetection
    \/ ConstructOCR
    \/ ConstructOffline
    \/ PredictAip
    \/ PredictSafeSearch
    \/ PredictObjectDetection
    \/ PredictOCR
    \/ PredictOffline
    \/ Remember

SpecPair == InitPair /\ [][NextPair]_vars

NextRng ==
    \/ SetSeeds
    \/ DrawRng
    \/ DrawNprng
    \/ ConstructOffline
    \/ PredictOffline

SpecRng == InitRng /\ [][NextRng]_vars

(***************************************************************************)
(* Properties.                                                             *)
(***************************************************************************)
Called == cur.cls # "none"
IsOffline == cur.cls = "OfflineAntiPornModel"
IsAip == cur.cls = "AipAntiPornModel"
Positions(e) == {i \in 1..Len(cur.events) : cur.events[i] = e}

\* The image bytes the remote call of the last call carried.
SentImage ==
    IF IsOffline
    THEN ParseRequest(b64decode(cur.sent.body.v.data.v).v).image
    ELSE cur.sent.v

\* C1: every predictions() call, of every wrapper class, makes exactly one
\* remote call, after the image was serialized (the call carries the
\* serialized image) and before the result is reshaped; a call whose remote
\* call fails makes no second one.
C1_OneRemoteCall ==
    Called =>
        /\ Cardinality(Positions("remote")) = 1
        /\ Cardinality(Positions("serialize")) = 1
        /\ \A i \in Positions("serialize"), j \in Positions("remote") : i < j
        /\ \A i \in Positions("remote"), j \in Positions("reshape") : i < j
        /\ SentImage = ndarray_to_bytes(cur.image)

\* A call whose remote call failed, for C1.
C1_Witness == Called /\ cur.svc.raises /\ cur.status = "raised"

IsListOfDicts(x, keys) ==
    /\ x.t = "list"
    /\ \A i \in 1..Len(x.v) :
          /\ x.v[i].t = "dict"
          /\ keys \subseteq DOMAIN x.v[i].v

\* C2: whatever the service answers, a predictions() call that returns
\* returns a list of dicts, with the keys class_name and probability for
\* AipAntiPornModel and OfflineAntiPornModel and the keys adult, medical,
\* racy, spoof and violence for GoogleSafeSearchModel.
C2_ListOfDicts ==
    (Called /\ cur.status = "returned") =>
        IsListOfDicts(cur.ret,
            IF cur.cls \in {"AipAntiPornModel", "OfflineAntiPornModel"}
            THEN {"class_name", "probability"}
            ELSE IF cur.cls = "GoogleSafeSearchModel"
            THEN {"adult", "medical", "racy", "spoof", "violence"}
            ELSE {})

\* The values drawn from a generator since set_seeds are those of the
\* generator seeded with the seed, whatever it held before.
DrawsFollowSeed(values, seeded) ==
    \A k \in 1..Len(values) : values[k] = RngAfter(seeded, k)

\* C3: set_seeds(seed) seeds both rng and nprng with seed, and the k-th
\* value drawn from either after the call is a function of seed and k alone:
\* it depends neither on the state before the call nor on the draws from the
\* other generator.
C3_SeedsBothGenerators ==
    seed # 0 =>
        /\ DrawsFollowSeed(drawn.rng, RandomSeed(seed))
        /\ DrawsFollowSeed(drawn.nprng, NumpySeed(seed))
        /\ Len(drawn.rng) < MaxDraws =>
              rng = RngAfter(RandomSeed(seed), Len(drawn.rng))
        /\ Len(drawn.nprng) < MaxDraws =>
              nprng = RngAfter(NumpySeed(seed), Len(drawn.nprng))

\* Both generators drawn from after set_seeds, in unequal numbers, for C3.
C3_Witness ==
    /\ seed # 0
    /\ Len(drawn.rng) = MaxDraws
    /\ Len(drawn.nprng) = 1

\* C4 as stated: after set_seeds(seed) the logid of a request is determined
\* by seed and the number of draws since, so two runs of the program that
\* take the same steps put the same logid in the request.
C4_LogidFollowsSeed ==
    (IsOffline /\ cur.seeded) => cur.logid = cur.logid2

\* C4 amended: set_seeds(seed) determines the values drawn from rng and
\* nprng; the logid is the value of the generator of the `random` module,
\* which set_seeds leaves as it was, in each run.
C4_LogidFollowsModuleGenerator ==
    /\ seed # 0 =>
          /\ DrawsFollowSeed(drawn.rng, RandomSeed(seed))
          /\ DrawsFollowSeed(drawn.nprng, NumpySeed(seed))
    /\ IsOffline =>
          /\ cur.logid = randint(LogidLow, LogidHigh, sysrng)
          /\ cur.logid2 = randint(LogidLow, LogidHigh, twin)
          /\ cur.sent.body.v.logid = cur.logid

\* A request sent after set_seeds whose logid differs between the two runs,
\* and a value drawn from rng since set_seeds, for C4.
C4_Witness ==
    /\ IsOffline /\ cur.seeded
    /\ cur.logid # cur.logid2
    /\ seed # 0 /\ Len(drawn.rng) > 0

\* C5: constructing a Google model while GOOGLE_APPLICATION_CREDENTIALS is
\* unset raises AssertionError and creates no client handle; a Google model
\* that holds a client handle was constructed with the credential set.
C5_CredentialChecked ==
    model.cls \in GoogleClasses =>
        /\ ~model.cred =>
              /\ ~model.ok
              /\ model.err = "AssertionError"
              /\ model.handle = ""
        /\ (model.ok \/ model.handle # "") => model.cred

\* A construction that failed with the credential unset, after a call on a
\* Google model constructed with it set, for C5.
C5_Witness ==
    /\ model.cls \in GoogleClasses
    /\ ~model.ok /\ ~model.cred
    /\ cur.cls \in GoogleClasses

TaskOf(cls) == IF cls = "GoogleObjectDetectionModel" THEN "det" ELSE "cls"

\* C6: predictions() assigns no field of the object: after any calls the
\* url and _apiType of an OfflineAntiPornModel and the value of model_task()
\* are those set by the constructor; and what a call returns or raises
\* depends on its image and the service's answer alone: an earlier call
\* with the same image and answer ended the same way.
C6_Stateless ==
    /\ model.ok =>
          /\ model.url = model.url0
          /\ model.cls # "GoogleOCRModel" =>
                model_task(model) = TaskOf(model.cls)
          /\ model.cls = "OfflineAntiPornModel" =>
                /\ model.url \in Urls
                /\ model._apiType = <<"antiporn">>
    /\ (prev.cls = cur.cls /\ prev.image = cur.image /\ prev.svc = cur.svc) =>
          /\ prev.status = cur.status
          /\ prev.ret = cur.ret
          /\ prev.err = cur.err

\* Two calls on OfflineAntiPornModel with the same image and answer, the
\* later one after other calls, for C6.
C6_Witness ==
    /\ IsOffline /\ cur.status = "returned"
    /\ prev.cls = cur.cls /\ prev.image = cur.image /\ prev.svc = cur.svc
    /\ model.ok /\ model.cls = "OfflineAntiPornModel"

ReceivedRequest == ParseRequest(b64decode(cur.sent.body.v.data.v).v)

\* The results of the server's answer, as the server wrote them.
ExpectedResults ==
    PyDict("result" :> PyList([i \in 1..Len(OfflineResults) |->
        PyDict([class_name |-> Utf8(OfflineResults[i].class_name),
                probability |-> OfflineResults[i].probability])]))

C9_FailedPostReturnsNothing ==
    (IsOffline /\ cur.svc.raises) =>
        /\ cur.status = "raised"
        /\ cur.err = "UnboundLocalError"
        /\ cur.ret = PyNone
        /\ Positions("print") # {}
        /\ Positions("reshape") = {}

\* A failed POST whose exception was printed, for C9.
C9_Witness ==
    /\ IsOffline /\ cur.svc.raises
    /\ cur.events = <<"serialize", "remote", "print">>

Detectors == {"GoogleObjectDetectionModel", "GoogleOCRModel"}

\* C10: GoogleOCRModel.predictions and GoogleObjectDetectionModel.predictions
\* do the same: both call object_localization, and on the same image and
\* service both end the same way, returning one dict per localized object
\* annotation of the answer, in the answer's order.
C10_OCRIsObjectDetection ==
    /\ cur.cls \in Detectors =>
          /\ cur.method = "object_localization"
          /\ cur.status = "returned" =>
                LET found == PbRepeated(cur.svc.body["object_localization"],
                                        "localized_object_annotations")
                IN  /\ cur.ret.t = "list"
                    /\ Len(cur.ret.v) = Len(found)
                    /\ \A i \in 1..Len(found) :
                          cur.ret.v[i] = protobuf_to_dict(found[i])
    /\ (/\ cur.cls \in Detectors /\ prev.cls \in Detectors
        /\ prev.image = cur.image /\ prev.svc = cur.svc) =>
          /\ prev.method = cur.method
          /\ prev.status = cur.status
          /\ prev.ret = cur.ret
          /\ prev.err = cur.err

\* The two classes called with the same image and service, two objects
\* found, for C10.
C10_Witness ==
    /\ cur.cls = "GoogleOCRModel" /\ prev.cls = "GoogleObjectDetectionModel"
    /\ prev.image = cur.image /\ prev.svc = cur.svc
    /\ cur.status = "returned" /\ Len(cur.ret.v) = 2

====
